---- MODULE Spec2Model ----
(***************************************************************************)
(* Model of image_style_transfer/style_transfer_model.py: the style        *)
(* transfer driver (BaseStyleTransferModel and its two subclasses), its    *)
(* loss functions and the variables a step() mutates.                      *)
(*                                                                         *)
(* Numbers.  Pixel values and activations are integers (a blend is rounded *)
(* down to one), noise ratios are in tenths, losses and weights are exact  *)
(* rationals <<num, den>>.                                                 *)
(* The pretrained extractor is opaque: its response to an image is an      *)
(* input (one small activation tensor per layer), and the gradient the     *)
(* optimizer sees is an input of step().                                   *)
(***************************************************************************)
EXTENDS Integers, Sequences, FiniteSets, TLC

VARIABLES
    \* ---- the driver (BaseStyleTransferModel and subclasses)
    variant,              \* "Classic" | "GivenGram": the class constructed
    layers,               \* self.vgg_style_output_layers
    weights,              \* self.vgg_style_output_layers_weights
    var_image,            \* self.var_image, the tracked elements
    input_content,        \* self.input_content
    input_style,          \* self.input_style (Classic only, else <<>>)
    style_gram_matrices,  \* self.style_gram_matrices (GivenGram only, else <<>>)
    vgg_weights,          \* the weights of self.base_vgg19
    adam_t,               \* number of Adam updates applied (beta1_power, beta2_power)
    adam_m,               \* Adam's first-moment slots, by sign
    adam_v,               \* Adam's second-moment slots: TRUE when > 0
    raw_image,            \* var_image as train_op left it, before the clip of the same run
    steps,                \* number of step() calls so far
    last_op,              \* the last operation called, with its inputs
    \* ---- the loss functions, evaluated on extractor responses
    var_resp,             \* the extractor's response to the synthesized image
    style_resp,           \* the extractor's response to the style image
    dbg_style_vgg_features,   \* Classic: self.dbg_style_vgg_features
    dbg_style_gram_matrices,  \* Classic: self.dbg_style_gram_matrices
    classic_loss,         \* outcome of ClassicStyleTransferModel.calculate_style_loss
    given_loss,           \* outcome of GivenGramMatricesStyleTransferModel.calculate_style_loss
    \* ---- direct calls of the static style_layer_loss
    call_args,            \* <<img_layer_vgg19, second argument>>
    call_result,          \* outcome of the call
    \* ---- calculate_histogram_loss
    hist_shape,           \* <<height, width>> of both images
    hist_img,             \* uniform value of img
    hist_content,         \* uniform value of content
    hist_result           \* outcome of calculate_histogram_loss(img, content)

vars == <<variant, layers, weights, var_image, input_content, input_style,
          style_gram_matrices, vgg_weights, adam_t, adam_m, adam_v, raw_image,
          steps, last_op, var_resp, style_resp, dbg_style_vgg_features,
          dbg_style_gram_matrices, classic_loss, given_loss, call_args,
          call_result, hist_shape, hist_img, hist_content, hist_result>>

driver_vars == <<variant, var_image, input_content, input_style, vgg_weights,
                 adam_t, adam_m, adam_v, raw_image, steps, last_op>>
style_vars == <<var_resp, style_resp, dbg_style_vgg_features,
                dbg_style_gram_matrices, classic_loss, given_loss>>
call_vars == <<call_args, call_result>>
hist_vars == <<hist_shape, hist_img, hist_content, hist_result>>

(***************************************************************************)
(* Bounds of the model.                                                    *)
(***************************************************************************)
\* tracked elements of each image variable
NumPix == 1
\* step() calls explored
MaxSteps == 2
\* longest layer list and weight list explored
MaxLayers == 3

(***************************************************************************)
(* Exact rationals <<num, den>>, den > 0, in lowest terms.                 *)
(***************************************************************************)
RECURSIVE GCD(_, _)
GCD(a, b) == IF b = 0 THEN a ELSE GCD(b, a % b)

Abs(x) == IF x < 0 THEN -x ELSE x

RNorm(n, d) ==
    LET g == GCD(Abs(n), Abs(d))
        s == IF d < 0 THEN -1 ELSE 1
    IN  <<(s * n) \div g, (s * d) \div g>>

RInt(n) == <<n, 1>>
RAdd(a, b) == RNorm(a[1] * b[2] + b[1] * a[2], a[2] * b[2])
RSub(a, b) == RNorm(a[1] * b[2] - b[1] * a[2], a[2] * b[2])
RMul(a, b) == RNorm(a[1] * b[1], a[2] * b[2])
RDivInt(a, k) == RNorm(a[1], a[2] * k)

\* sums split in halves, to keep the evaluation shallow
RECURSIVE RSumRange(_, _, _)
RSumRange(s, lo, hi) ==
    IF lo > hi THEN RInt(0)
    ELSE IF lo = hi THEN s[lo]
    ELSE LET mid == (lo + hi) \div 2
         IN  RAdd(RSumRange(s, lo, mid), RSumRange(s, mid + 1, hi))

RSum(s) == RSumRange(s, 1, Len(s))

RECURSIVE Product(_)
Product(s) == IF s = <<>> THEN 1 ELSE s[1] * Product(Tail(s))

RECURSIVE SumIntRange(_, _, _)
SumIntRange(s, lo, hi) ==
    IF lo > hi THEN 0
    ELSE IF lo = hi THEN s[lo]
    ELSE LET mid == (lo + hi) \div 2
         IN  SumIntRange(s, lo, mid) + SumIntRange(s, mid + 1, hi)

SumInt(s) == SumIntRange(s, 1, Len(s))

(***************************************************************************)
(* Outcomes of a call: a value, or the exception that ended it.            *)
(***************************************************************************)
Ok(v) == [ok |-> TRUE, val |-> v]
Err(e) == [ok |-> FALSE, err |-> e]
NotCalled == [ok |-> FALSE, err |-> "not called"]
Called(r) == r # NotCalled

(***************************************************************************)
(* Tensors: a static shape and the elements in row-major order.            *)
(***************************************************************************)
Tensor(shape, data) == [shape |-> shape, data |-> data]

Zeros(shape) == Tensor(shape, [i \in 1..Product(shape) |-> 0])

\* a - b, element by element; a one-element operand is broadcast
TSub(a, b) ==
    IF a.shape = b.shape
    THEN Ok(Tensor(a.shape, [i \in 1..Len(a.data) |-> a.data[i] - b.data[i]]))
    ELSE IF Len(a.shape) = Len(b.shape) /\ Len(b.data) = 1
    THEN Ok(Tensor(a.shape, [i \in 1..Len(a.data) |-> a.data[i] - b.data[1]]))
    ELSE IF Len(a.shape) = Len(b.shape) /\ Len(a.data) = 1
    THEN Ok(Tensor(b.shape, [i \in 1..Len(b.data) |-> a.data[1] - b.data[i]]))
    ELSE Err("ValueError")

\* tf.reduce_sum(tf.square(t))
SumSquares(t) == SumInt([i \in 1..Len(t.data) |-> t.data[i] * t.data[i]])

(***************************************************************************)
(* The extractor: self.base_vgg19.  Its layers in network order, and the   *)
(* static shape (batch, height, width, channels) of each layer's output    *)
(* for the image shape of the run.                                         *)
(***************************************************************************)
VggLayers == <<"block1_conv1", "block2_conv1", "block3_conv1">>

VggLayerNames == {VggLayers[i] : i \in 1..Len(VggLayers)}

LayerShape ==
    [n \in VggLayerNames |->
        CASE n = "block1_conv1" -> <<1, 1, 2, 1>>
          [] n = "block2_conv1" -> <<1, 1, 1, 2>>
          [] OTHER              -> <<1, 1, 1, 1>>]

\* a name no layer of the extractor has
UnknownLayer == "block9_conv9"

InSeq(x, s) == \E i \in 1..Len(s) : s[i] = x

\* what python's iteration (for, zip, a comprehension) makes of a value
\* returned by a keras Model call: a list iterates, a graph Tensor raises
Iterate(ret) == IF ret.kind = "list" THEN Ok(ret.ts) ELSE Err("TypeError")

\* lines 63-68.  resp is the extractor's response to img, a table
\* layer name -> activations; the outputs are picked by walking the
\* network's layers, and a Model with a single output returns that tensor
\* itself, not a list.
vgg_features(resp, layer_names) ==
    LET picked == SelectSeq(VggLayers, LAMBDA n : InSeq(n, layer_names))
        output_tensors ==
            [i \in 1..Len(picked) |->
                [layer |-> picked[i], shape |-> LayerShape[picked[i]],
                 data |-> resp[picked[i]]]]
    IN  IF Len(output_tensors) = 1
        THEN [kind |-> "tensor", ts |-> output_tensors]
        ELSE [kind |-> "list", ts |-> output_tensors]

(***************************************************************************)
(* ClassicStyleTransferModel.gram_matrix, lines 194-202.                   *)
(***************************************************************************)
gram_matrix(activations) ==
    LET shape == activations.shape
        N == shape[4]
        M == shape[2] * shape[3]
        \* acts_2d[m][n], the (M, N) reshape of the row-major data
        acts_2d(m, n) == activations.data[(m - 1) * N + n]
        entry(k) ==
            LET i == ((k - 1) \div N) + 1
                j == ((k - 1) % N) + 1
            IN  SumInt([m \in 1..M |-> acts_2d(m, i) * acts_2d(m, j)])
    IN  Tensor(<<N, N>>, [k \in 1..(N * N) |-> entry(k)])

\* the tail both style_layer_loss share: reduce_sum(square(g1 - g2)) / (2NM)^2
GramDistance(g1, g2, N, M) ==
    LET d == TSub(g1, g2)
    IN  IF d.ok
        THEN Ok(RNorm(SumSquares(d.val), (2 * N * M) * (2 * N * M)))
        ELSE d

\* ClassicStyleLayerLoss without its assertion
ClassicStyleLayerLoss_noassert(img_layer_vgg19, style_layer_vgg19) ==
    GramDistance(gram_matrix(img_layer_vgg19), gram_matrix(style_layer_vgg19),
                 img_layer_vgg19.shape[4],
                 img_layer_vgg19.shape[2] * img_layer_vgg19.shape[3])

\* ClassicStyleTransferModel.style_layer_loss, lines 182-192
ClassicStyleLayerLoss(img_layer_vgg19, style_layer_vgg19) ==
    IF img_layer_vgg19.shape # style_layer_vgg19.shape
    THEN Err("AssertionError")
    ELSE LET shape == img_layer_vgg19.shape
             N == shape[4]
             M == shape[2] * shape[3]
             g1 == gram_matrix(img_layer_vgg19)
             g2 == gram_matrix(style_layer_vgg19)
         IN  GramDistance(g1, g2, N, M)

\* GivenGramStyleLayerLoss normalised by 2NM instead of its square
GivenGramStyleLayerLoss_unsquared(img_layer_vgg19, style_gram_matrix) ==
    LET shape == img_layer_vgg19.shape
        N == shape[4]
        M == shape[2] * shape[3]
        d == TSub(gram_matrix(img_layer_vgg19), style_gram_matrix)
    IN  IF gram_matrix(img_layer_vgg19).shape # style_gram_matrix.shape
        THEN Err("AssertionError")
        ELSE Ok(RNorm(SumSquares(d.val), 2 * N * M))

\* GivenGramMatricesStyleTransferModel.style_layer_loss, lines 241-251
GivenGramStyleLayerLoss(img_layer_vgg19, style_gram_matrix) ==
    LET shape == img_layer_vgg19.shape
        N == shape[4]
        M == shape[2] * shape[3]
        g1 == gram_matrix(img_layer_vgg19)
        g2 == style_gram_matrix
    IN  IF g1.shape # g2.shape
        THEN Err("AssertionError")
        ELSE GramDistance(g1, g2, N, M)

(***************************************************************************)
(* The aggregation both calculate_style_loss share, lines 171-177 and      *)
(* 231-237: stack the per-layer losses, multiply by the weight list under  *)
(* TensorFlow's broadcasting, sum.                                         *)
(***************************************************************************)
\* the first failed entry of a list of outcomes, if any
FirstError(outs) ==
    LET bad == {i \in 1..Len(outs) : ~outs[i].ok}
    IN  IF bad = {} THEN Ok([i \in 1..Len(outs) |-> outs[i].val])
        ELSE outs[CHOOSE i \in bad : \A j \in bad : i <= j]

\* Multiply with the weights left out of the product
Multiply_unweighted(x, y) ==
    IF Len(x) = Len(y) \/ Len(y) = 1 THEN Ok(x)
    ELSE IF Len(x) = 1 THEN Ok([i \in 1..Len(y) |-> x[1]])
    ELSE Err("ValueError")

\* tf.multiply of two vectors: equal lengths, or one of length 1 broadcast
Multiply(x, y) ==
    IF Len(x) = Len(y) THEN Ok([i \in 1..Len(x) |-> RMul(x[i], y[i])])
    ELSE IF Len(y) = 1 THEN Ok([i \in 1..Len(x) |-> RMul(x[i], y[1])])
    ELSE IF Len(x) = 1 THEN Ok([i \in 1..Len(y) |-> RMul(x[1], y[i])])
    ELSE Err("ValueError")

weighted_loss(layers_losses, layers_weights) ==
    LET prod == Multiply(layers_losses, layers_weights)
    IN  IF prod.ok THEN Ok(RSum(prod.val)) ELSE prod

\* python's zip: pairs up to the shorter list
Zip(a, b) ==
    LET n == IF Len(a) <= Len(b) THEN Len(a) ELSE Len(b)
    IN  [i \in 1..n |-> <<a[i], b[i]>>]

\* ClassicStyleTransferModel.calculate_style_loss, lines 162-179.  The
\* record holds the outcome and the two dbg_ attributes it sets.
ClassicCalculate(v_resp, s_resp, layer_names, layers_weights) ==
    LET style_vgg_features == vgg_features(s_resp, layer_names)
        var_image_vgg_features == vgg_features(v_resp, layer_names)
        s_it == Iterate(style_vgg_features)
        v_it == Iterate(var_image_vgg_features)
    IN  IF ~s_it.ok
        THEN [out |-> s_it, dbg_features |-> style_vgg_features, dbg_grams |-> <<>>]
        ELSE
        LET grams == [i \in 1..Len(s_it.val) |-> gram_matrix(s_it.val[i])]
            pairs == Zip(v_it.val, s_it.val)
            losses == FirstError([i \in 1..Len(pairs) |->
                          ClassicStyleLayerLoss(pairs[i][1], pairs[i][2])])
        IN  [out |-> IF ~v_it.ok THEN v_it
                     ELSE IF ~losses.ok THEN losses
                     ELSE weighted_loss(losses.val, layers_weights),
             dbg_features |-> style_vgg_features,
             dbg_grams |-> grams]

\* GivenGramMatricesStyleTransferModel.__init__, lines 209-214: one zero
\* variable per feature tensor of the configured layers
GivenGramInit(layer_names) ==
    LET it == Iterate(vgg_features([n \in VggLayerNames |->
                                       Zeros(LayerShape[n]).data], layer_names))
    IN  IF ~it.ok THEN it
        ELSE Ok([i \in 1..Len(it.val) |->
                    Zeros(<<it.val[i].shape[4], it.val[i].shape[4]>>)])

\* GivenGramMatricesStyleTransferModel.calculate_style_loss, lines 224-239
GivenGramCalculate(v_resp, layer_names, layers_weights, gram_vars) ==
    LET var_image_vgg_features == vgg_features(v_resp, layer_names)
        v_it == Iterate(var_image_vgg_features)
    IN  IF ~v_it.ok THEN Err("TypeError")
        ELSE IF Len(v_it.val) # Len(gram_vars) THEN Err("AssertionError")
        ELSE
        LET pairs == Zip(v_it.val, gram_vars)
            losses == FirstError([i \in 1..Len(pairs) |->
                          GivenGramStyleLayerLoss(pairs[i][1], pairs[i][2])])
        IN  IF ~losses.ok THEN losses
            ELSE weighted_loss(losses.val, layers_weights)

\* load_style_gram_matrices, lines 217-220: assign pairwise, as far as the
\* shorter list goes; tf.assign refuses a value of another shape
LoadGrams(gram_vars, gram_matrices) ==
    LET n == Len(Zip(gram_vars, gram_matrices))
    IN  IF \E i \in 1..n : gram_vars[i].shape # gram_matrices[i].shape
        THEN Err("ValueError")
        ELSE Ok([i \in 1..Len(gram_vars) |->
                    IF i <= n THEN gram_matrices[i] ELSE gram_vars[i]])

(***************************************************************************)
(* calculate_histogram_loss, lines 112-119.  An image is a sequence of     *)
(* rows of pixels, a pixel a sequence of three channel values.             *)
(***************************************************************************)
POOL_WINDOW == 30
POOL_STRIDE == 30
PIXEL_SCALE == 255

\* tf.reduce_mean(img / scale, axis=2, keep_dims=True)
Brightness(img, scale) ==
    [i \in 1..Len(img) |-> [j \in 1..Len(img[i]) |->
        RDivInt(RSum([c \in 1..Len(img[i][j]) |->
                         RNorm(img[i][j][c], scale)]),
                Len(img[i][j]))]]

\* tf.nn.pool(x, (30, 30), 'AVG', 'VALID', strides=(30, 30)): the mean of
\* every complete window; shape inference refuses an input smaller than
\* the window (a negative output dimension)
AvgPoolValid(x) ==
    LET h == Len(x)
        w == IF h = 0 THEN 0 ELSE Len(x[1])
    IN  IF h < POOL_WINDOW \/ w < POOL_WINDOW THEN Err("ValueError")
        ELSE
        LET rows == ((h - POOL_WINDOW) \div POOL_STRIDE) + 1
            cols == ((w - POOL_WINDOW) \div POOL_STRIDE) + 1
            tile(r, c) ==
                RDivInt(
                    RSum([a \in 1..POOL_WINDOW |->
                        RSum([b \in 1..POOL_WINDOW |->
                            x[(r - 1) * POOL_STRIDE + a]
                             [(c - 1) * POOL_STRIDE + b]])]),
                    POOL_WINDOW * POOL_WINDOW)
        IN  Ok([r \in 1..rows |-> [c \in 1..cols |-> tile(r, c)]])

\* tf.reduce_mean(tf.square(a - b)) of two pooled maps
MeanSquaredDifference(a, b) ==
    LET sq(r, c) == RMul(RSub(a[r][c], b[r][c]), RSub(a[r][c], b[r][c]))
    IN  RDivInt(RSum([r \in 1..Len(a) |-> RSum([c \in 1..Len(a[r]) |-> sq(r, c)])]),
                Len(a) * Len(a[1]))

\* the histogram loss with content's brightness left unscaled
calculate_histogram_loss_unscaled(img, content) ==
    LET img_p == AvgPoolValid(Brightness(img, PIXEL_SCALE))
        content_p == AvgPoolValid(Brightness(content, 1))
    IN  IF ~img_p.ok THEN img_p
        ELSE IF ~content_p.ok THEN content_p
        ELSE Ok(MeanSquaredDifference(img_p.val, content_p.val))

calculate_histogram_loss(img, content) ==
    LET img_brightness == Brightness(img, PIXEL_SCALE)
        img_p == AvgPoolValid(img_brightness)
        content_brightness == Brightness(content, PIXEL_SCALE)
        content_p == AvgPoolValid(content_brightness)
    IN  IF ~img_p.ok THEN img_p
        ELSE IF ~content_p.ok THEN content_p
        ELSE Ok(MeanSquaredDifference(img_p.val, content_p.val))

(***************************************************************************)
(* Inputs of the loss functions.                                           *)
(***************************************************************************)
\* sequences over S of length lo..hi
SeqsOf(S, lo, hi) == UNION {[1..n -> S] : n \in lo..hi}

\* layer lists: any names, the unknown one included, at least one of them
\* a layer of the extractor
LayerLists ==
    {l \in SeqsOf(VggLayerNames \cup {UnknownLayer}, 1, MaxLayers) :
        \E i \in 1..Len(l) : l[i] \in VggLayerNames}

\* weights 0.5 and 1.0
WeightValues == {<<1, 2>>, <<1, 1>>}

WeightLists == SeqsOf(WeightValues, 1, MaxLayers)

\* activation values of the extractor's responses
ActValues == {0, 1}

\* every response of the extractor to an image
Responses ==
    [VggLayerNames -> UNION {[1..n -> ActValues] : n \in 1..2}] \cap
    {r \in [VggLayerNames -> UNION {[1..n -> ActValues] : n \in 1..2}] :
        \A n \in VggLayerNames : Len(r[n]) = Product(LayerShape[n])}

\* the responses whose activations are all equal
FlatResponses ==
    {[n \in VggLayerNames |-> [i \in 1..Product(LayerShape[n]) |-> a]] :
        a \in ActValues}

\* the variables no operation of a run touches keep these values
Idle == <<>>

DriverIdle ==
    /\ variant = "none"
    /\ var_image = Idle /\ input_content = Idle /\ input_style = Idle
    /\ vgg_weights = Idle
    /\ adam_t = 0 /\ adam_m = Idle /\ adam_v = Idle
    /\ raw_image = Idle /\ steps = 0 /\ last_op = Idle

StyleIdle ==
    /\ layers = Idle /\ weights = Idle /\ style_gram_matrices = Idle
    /\ var_resp = Idle /\ style_resp = Idle
    /\ dbg_style_vgg_features = Idle /\ dbg_style_gram_matrices = Idle
    /\ classic_loss = NotCalled /\ given_loss = NotCalled

CallIdle == call_args = Idle /\ call_result = NotCalled

HistIdle ==
    /\ hist_shape = Idle /\ hist_img = 0 /\ hist_content = 0
    /\ hist_result = NotCalled

(***************************************************************************)
(* The style loss of both variants, built on the same configuration and    *)
(* the same extractor responses.                                           *)
(***************************************************************************)
\* every configuration, on the flat responses
InitConfigSweep ==
    /\ layers \in LayerLists
    /\ weights \in WeightLists
    /\ var_resp \in FlatResponses
    /\ style_resp \in FlatResponses

\* every response, on the full layer list in two orders
InitResponseSweep ==
    /\ layers \in {VggLayers, <<VggLayers[2], VggLayers[1]>>}
    /\ weights \in {[i \in 1..Len(layers) |-> <<1, 1>>],
                    [i \in 1..Len(layers) |-> <<i, 2>>]}
    /\ var_resp \in Responses
    /\ style_resp \in Responses

StyleInit ==
    /\ InitConfigSweep \/ InitResponseSweep
    /\ style_gram_matrices = GivenGramInit(layers)
    /\ dbg_style_vgg_features = Idle /\ dbg_style_gram_matrices = Idle
    /\ classic_loss = NotCalled /\ given_loss = NotCalled
    /\ DriverIdle /\ CallIdle /\ HistIdle

\* Classic: build the style loss and evaluate it
ClassicCalculateStyleLoss ==
    /\ classic_loss = NotCalled
    /\ LET r == ClassicCalculate(var_resp, style_resp, layers, weights)
       IN  /\ classic_loss' = r.out
           /\ dbg_style_vgg_features' = r.dbg_features
           /\ dbg_style_gram_matrices' = r.dbg_grams
    /\ UNCHANGED <<layers, weights, var_resp, style_resp, style_gram_matrices,
                   given_loss, driver_vars, call_vars, hist_vars>>

\* GivenGram: load the reference matrices before the loss is evaluated,
\* from what Classic computed of the style image or from another image
LoadStyleGramMatrices ==
    /\ style_gram_matrices.ok
    /\ given_loss = NotCalled
    /\ \E gram_matrices \in {dbg_style_gram_matrices,
                             ClassicCalculate(style_resp, var_resp,
                                              layers, weights).dbg_grams} :
          LET r == LoadGrams(style_gram_matrices.val, gram_matrices)
          IN  /\ r.ok
              /\ style_gram_matrices' = r
    /\ UNCHANGED <<layers, weights, var_resp, style_resp,
                   dbg_style_vgg_features, dbg_style_gram_matrices,
                   classic_loss, given_loss, driver_vars, call_vars, hist_vars>>

\* GivenGram: build the style loss and evaluate it
GivenGramCalculateStyleLoss ==
    /\ style_gram_matrices.ok
    /\ given_loss = NotCalled
    /\ given_loss' = GivenGramCalculate(var_resp, layers, weights,
                                        style_gram_matrices.val)
    /\ UNCHANGED <<layers, weights, var_resp, style_resp, style_gram_matrices,
                   dbg_style_vgg_features, dbg_style_gram_matrices,
                   classic_loss, driver_vars, call_vars, hist_vars>>

StyleNext ==
    \/ ClassicCalculateStyleLoss
    \/ LoadStyleGramMatrices
    \/ GivenGramCalculateStyleLoss

SpecStyle == StyleInit /\ [][StyleNext]_vars

(***************************************************************************)
(* Claims about the style loss (SpecStyle).                                *)
(***************************************************************************)
HasUnknown(l) == \E i \in 1..Len(l) : l[i] \notin VggLayerNames

NoDuplicates(l) == \A i, j \in 1..Len(l) : l[i] = l[j] => i = j

\* the layers the tensors of a vgg_features result come from, in its order
OutLayers(ret) == [i \in 1..Len(ret.ts) |-> ret.ts[i].layer]

\* C3: whenever the layer list and the weight list differ in length,
\* calculate_style_loss of either variant ends in an error and returns no
\* style loss.
C3_LengthMismatchRaises ==
    Len(layers) # Len(weights) =>
        /\ Called(classic_loss) => ~classic_loss.ok
        /\ Called(given_loss) => ~given_loss.ok

\* C4: for a list of distinct layers of the extractor, in any order,
\* vgg_features returns the tensors of exactly these layers in the order of
\* the list, so that weight i meets the loss of layer i.
C4_FeaturesInRequestedOrder ==
    (Called(classic_loss) /\ ~HasUnknown(layers) /\ NoDuplicates(layers)) =>
        OutLayers(dbg_style_vgg_features) = layers

\* C5: with a name in the layer list that no layer of the extractor has,
\* vgg_features returns nothing (it raises) and neither variant computes a
\* style loss.
C5_UnknownLayerRaises ==
    HasUnknown(layers) =>
        /\ Called(classic_loss) =>
              (dbg_style_vgg_features = Idle /\ ~classic_loss.ok)
        /\ Called(given_loss) => ~given_loss.ok

\* C6: once the GivenGram variant holds exactly the Gram matrices Classic
\* computed of the style image, its style loss for the same synthesized
\* image, layer list and weights is the style loss of Classic (the same
\* value, or both end in the same error).
C6_VariantsAgree ==
    (/\ Called(classic_loss) /\ Called(given_loss)
     /\ style_gram_matrices = Ok(dbg_style_gram_matrices)) =>
        given_loss = classic_loss

\* C6 witness: both losses computed on Classic's matrices, and not zero
C6_Witness ==
    /\ Called(classic_loss) /\ Called(given_loss)
    /\ style_gram_matrices = Ok(dbg_style_gram_matrices)
    /\ classic_loss.ok /\ classic_loss.val[1] > 0
    /\ \E i \in 1..Len(dbg_style_gram_matrices) :
          \E k \in 1..Len(dbg_style_gram_matrices[i].data) :
              dbg_style_gram_matrices[i].data[k] # 0

\* the sum over i of weight i times loss i
RECURSIVE WeightedSum(_, _)
WeightedSum(w, l) ==
    IF w = <<>> \/ l = <<>> THEN RInt(0)
    ELSE RAdd(RMul(w[1], l[1]), WeightedSum(Tail(w), Tail(l)))

\* the per-layer losses each variant stacks
ClassicLayerLosses ==
    LET v == vgg_features(var_resp, layers).ts
        st == vgg_features(style_resp, layers).ts
    IN  [i \in 1..Len(v) |-> ClassicStyleLayerLoss(v[i], st[i]).val]

GivenGramLayerLosses ==
    LET v == vgg_features(var_resp, layers).ts
    IN  [i \in 1..Len(v) |->
            GivenGramStyleLayerLoss(v[i], style_gram_matrices.val[i]).val]

\* C8: with a weight list as long as the layer list, the style loss either
\* variant returns is the sum of weight i times per-layer loss i; weights
\* 0.5, 1, 1.5, 3, 4 on losses 1, 2, 3, 4, 5 give 39.
C8_WeightedSum ==
    /\ (classic_loss.ok /\ Len(weights) = Len(layers)) =>
          /\ Len(ClassicLayerLosses) = Len(weights)
          /\ classic_loss.val = WeightedSum(weights, ClassicLayerLosses)
    /\ (given_loss.ok /\ Len(weights) = Len(layers)) =>
          /\ Len(GivenGramLayerLosses) = Len(weights)
          /\ given_loss.val = WeightedSum(weights, GivenGramLayerLosses)
    /\ weighted_loss(<<RInt(1), RInt(2), RInt(3), RInt(4), RInt(5)>>,
                     <<<<1, 2>>, RInt(1), <<3, 2>>, RInt(3), RInt(4)>>)
          = Ok(RInt(39))

\* C8 witness: a style loss over several layers with unequal weights and
\* unequal, non-zero per-layer losses
C8_Witness ==
    /\ classic_loss.ok /\ Len(weights) = Len(layers)
    /\ \E i, j \in 1..Len(weights) :
          /\ weights[i] # weights[j]
          /\ ClassicLayerLosses[i] # ClassicLayerLosses[j]
          /\ ClassicLayerLosses[i][1] > 0 /\ ClassicLayerLosses[j][1] > 0

(***************************************************************************)
(* Direct calls of the two static style_layer_loss (SpecCall).             *)
(***************************************************************************)
\* the activation tensors of the extractor's layers
FeatureTensors ==
    UNION {{Tensor(LayerShape[n], d) :
               d \in [1..Product(LayerShape[n]) -> ActValues]} :
           n \in VggLayerNames}

\* Gram matrices of these tensors
GramTensors == {gram_matrix(f) : f \in FeatureTensors}

CallInit ==
    /\ call_args \in
          ({"Classic"} \X FeatureTensors \X FeatureTensors) \cup
          ({"GivenGram"} \X FeatureTensors \X GramTensors)
    /\ call_result = NotCalled
    /\ DriverIdle /\ StyleIdle /\ HistIdle

CallStyleLayerLoss ==
    /\ call_result = NotCalled
    /\ call_result' =
          IF call_args[1] = "Classic"
          THEN ClassicStyleLayerLoss(call_args[2], call_args[3])
          ELSE GivenGramStyleLayerLoss(call_args[2], call_args[3])
    /\ UNCHANGED <<call_args, layers, weights, style_gram_matrices,
                   driver_vars, style_vars, hist_vars>>

CallNext == CallStyleLayerLoss

SpecCall == CallInit /\ [][CallNext]_vars

\* the shapes of the two Gram matrices a call compares
ComparedGramShapes ==
    <<gram_matrix(call_args[2]).shape,
      IF call_args[1] = "Classic" THEN gram_matrix(call_args[3]).shape
      ELSE call_args[3].shape>>

\* C7: a call of style_layer_loss, of either variant, whose two Gram
\* matrices differ in shape ends in an AssertionError and yields no loss.
C7_ShapeMismatchAsserts ==
    (Called(call_result) /\ ComparedGramShapes[1] # ComparedGramShapes[2]) =>
        call_result = Err("AssertionError")

\* C7 witness: a call with Gram matrices of two shapes was made
C7_Witness ==
    /\ Called(call_result)
    /\ ComparedGramShapes[1] # ComparedGramShapes[2]
    /\ call_args[2].data # Zeros(call_args[2].shape).data

(***************************************************************************)
(* calculate_histogram_loss on uniform images (SpecHist).                  *)
(***************************************************************************)
\* heights and widths: below, at and above the window, and past two windows
HistSizes == {POOL_WINDOW - 1, POOL_WINDOW, POOL_WINDOW + 1, 2 * POOL_WINDOW + 1}

\* channel values of a uniform image
HistValues == {0, 100, 255}

UniformImage(shape, v) ==
    [i \in 1..shape[1] |-> [j \in 1..shape[2] |-> <<v, v, v>>]]

HistInit ==
    /\ hist_shape \in HistSizes \X HistSizes
    /\ hist_img \in HistValues
    /\ hist_content \in HistValues
    /\ hist_result = NotCalled
    /\ DriverIdle /\ StyleIdle /\ CallIdle

CalculateHistogramLoss ==
    /\ hist_result = NotCalled
    /\ hist_result' = calculate_histogram_loss(
                          UniformImage(hist_shape, hist_img),
                          UniformImage(hist_shape, hist_content))
    /\ UNCHANGED <<hist_shape, hist_img, hist_content, layers, weights,
                   style_gram_matrices, driver_vars, style_vars, call_vars>>

HistNext == CalculateHistogramLoss

SpecHist == HistInit /\ [][HistNext]_vars

\* C9 as claimed: the histogram loss of a uniform image against itself is
\* 0 for every height and width.
C9_SelfLossZeroAnySize ==
    (Called(hist_result) /\ hist_img = hist_content) =>
        hist_result = Ok(RInt(0))

\* C9 amended: the histogram loss of a uniform image against itself is 0
\* whenever height and width are both at least the 30-pixel window, a
\* multiple of 30 or not; below the window in either dimension the call
\* ends in an error and returns no loss.
C9_SelfLossZeroFromWindowSize ==
    (Called(hist_result) /\ hist_img = hist_content) =>
        IF hist_shape[1] >= POOL_WINDOW /\ hist_shape[2] >= POOL_WINDOW
        THEN hist_result = Ok(RInt(0))
        ELSE ~hist_result.ok

\* C9 witness: a bright uniform image with partial trailing tiles compared
\* with itself
C9_Witness ==
    /\ Called(hist_result) /\ hist_result.ok
    /\ hist_img = hist_content /\ hist_img > 0
    /\ hist_shape[1] % POOL_WINDOW # 0 /\ hist_shape[2] > 2 * POOL_WINDOW

(***************************************************************************)
(* The driver.  Every variable of the graph is followed through a few      *)
(* tracked elements (all the operations on them are element-wise): NumPix  *)
(* elements of each image, every entry of the Gram matrix variables, one   *)
(* weight of the extractor.                                                *)
(***************************************************************************)
CLIP_MIN == 0
CLIP_MAX == 255
LEARNING_RATE == 1
NOISE_RATIO_ONE == 10

\* VGG_MEAN_PIXELS, line 6, to the nearest integer
VGG_MEAN_PIXELS == <<124, 117, 104>>

\* the channel of tracked element e of an image
Channel(e) == ((e - 1) % 3) + 1

\* tf.clip_by_value
clip_by_value(x, lo, hi) ==
    [e \in 1..Len(x) |-> IF x[e] < lo THEN lo ELSE IF x[e] > hi THEN hi ELSE x[e]]

\* generate_noisy_image with the two weights of the blend exchanged
generate_noisy_image_swapped(image, noise_ratio, noise) ==
    clip_by_value(
        [e \in 1..Len(image) |->
            ((VGG_MEAN_PIXELS[Channel(e)] + noise[e]) * (NOISE_RATIO_ONE - noise_ratio)
             + image[e] * noise_ratio) \div NOISE_RATIO_ONE],
        CLIP_MIN, CLIP_MAX)

\* generate_noisy_image, lines 142-145; noise is what np.random.uniform drew
generate_noisy_image(image, noise_ratio, noise) ==
    LET noise_image == [e \in 1..Len(image) |-> VGG_MEAN_PIXELS[Channel(e)] + noise[e]]
    IN  clip_by_value(
            [e \in 1..Len(image) |->
                (noise_image[e] * noise_ratio
                 + image[e] * (NOISE_RATIO_ONE - noise_ratio)) \div NOISE_RATIO_ONE],
            CLIP_MIN, CLIP_MAX)

\* the clip with nothing clipped
clip_var_image_op_unclipped(x) == x

\* clip_var_image_op, line 89: what is assigned to var_image after train_op
clip_var_image_op(x) == clip_by_value(x, CLIP_MIN, CLIP_MAX)

\* The variables of the graph a variant builds: the key the model knows
\* each by, its name as scope components, and whether it is trainable.
GraphVariables(v, grams) ==
    {[key |-> <<"var_image">>, name |-> <<"Variable">>, trainable |-> TRUE],
     [key |-> <<"input_content">>, name |-> <<"inputs", "input_content">>,
      trainable |-> FALSE],
     [key |-> <<"vgg_weights">>, name |-> <<"vgg19", "block1_conv1", "kernel">>,
      trainable |-> TRUE]}
    \cup (IF v = "Classic"
          THEN {[key |-> <<"input_style">>, name |-> <<"inputs", "input_style">>,
                 trainable |-> FALSE]}
          ELSE {[key |-> <<"style_gram_matrices", i>>, name |-> <<"Variable_" \o ToString(i)>>,
                 trainable |-> TRUE] : i \in 1..Len(grams)})

\* tf.get_collection(tf.GraphKeys.TRAINABLE_VARIABLES)
TRAINABLE_VARIABLES(v, grams) == {x \in GraphVariables(v, grams) : x.trainable}

\* vars_to_train, line 85
vars_to_train(v, grams) ==
    {x \in TRAINABLE_VARIABLES(v, grams) : ~InSeq("vgg19", x.name)}

TrainKeys(v, grams) == {x.key : x \in vars_to_train(v, grams)}

\* the Gram matrix variables of the constructed object, none for Classic
GramVars == IF variant = "GivenGram" THEN style_gram_matrices.val ELSE <<>>

\* the tracked elements of the variable a key names
ValueOf(key) ==
    CASE key = <<"var_image">> -> var_image
      [] key = <<"input_content">> -> input_content
      [] key = <<"input_style">> -> input_style
      [] key = <<"vgg_weights">> -> vgg_weights
      [] OTHER -> GramVars[key[2]].data

\* the elements Adam keeps slots for: every element of every trained variable
TrainElems(v, grams) ==
    UNION {{<<k, e>> : e \in 1..(IF Len(k) = 2 THEN Len(grams[k[2]].data)
                                  ELSE NumPix)} :
           k \in TrainKeys(v, grams)}

\* the sign of Adam's first moment after a gradient of sign g: the
\* gradient's when the moment was zero or agrees, the old one when the
\* gradient is zero, and either (tie tells which) when the two disagree
NewMoment(m, g, tie) ==
    IF g = 0 THEN m
    ELSE IF m = 0 \/ m = g THEN g
    ELSE tie

\* the outcomes to explore for a gradient: both where some element's
\* gradient opposes its moment
Ties(grad) ==
    IF \E te \in DOMAIN adam_m : adam_m[te] # 0 /\ grad[te] = -adam_m[te]
    THEN {-1, 1} ELSE {1}

\* the value train_op leaves in a variable: Adam moves every element
\* against the sign of its first moment, by the learning rate
AdamApply(key, value, m) ==
    [e \in 1..Len(value) |-> value[e] - LEARNING_RATE * m[<<key, e>>]]

\* what one run of train_op makes of the variable a key names
Trained(key, m) ==
    IF key \in TrainKeys(variant, GramVars)
    THEN AdamApply(key, ValueOf(key), m)
    ELSE ValueOf(key)

(***************************************************************************)
(* Inputs of the driver's operations.                                      *)
(***************************************************************************)
\* the layers and weights the driver is constructed with
DriverLayers == <<"block1_conv1", "block3_conv1">>
DriverWeights == <<<<1, 2>>, <<1, 1>>>>

\* image values: the two ends of the valid range
ImageValues == {0, 255}
Images == [1..NumPix -> ImageValues]

\* what np.random.uniform(-20, 20) may draw
NoiseValues == {-20, 19}
Noises == [1..NumPix -> NoiseValues]

\* noise ratios: 0, the default 0.6, and 2
NoiseRatios == {0, 6, 20}

\* signs of a gradient element
Grads == {-1, 0, 1}

\* the extractor's weights: as initialised, and as the weight file has them
InitialWeights == <<0>>
FileWeights == <<7>>

Init ==
    /\ variant \in {"Classic", "GivenGram"}
    /\ layers = DriverLayers
    /\ weights = DriverWeights
    /\ var_image = [e \in 1..NumPix |-> 0]
    /\ input_content = [e \in 1..NumPix |-> 0]
    /\ input_style = IF variant = "Classic" THEN [e \in 1..NumPix |-> 0] ELSE Idle
    /\ style_gram_matrices =
          IF variant = "GivenGram" THEN GivenGramInit(layers) ELSE Idle
    /\ vgg_weights = InitialWeights
    /\ adam_t = 0
    /\ adam_m = [te \in TrainElems(variant,
                    IF variant = "GivenGram" THEN GivenGramInit(layers).val
                    ELSE <<>>) |-> 0]
    /\ adam_v = [te \in DOMAIN adam_m |-> FALSE]
    /\ raw_image = var_image
    /\ steps = 0
    /\ last_op = <<"build">>
    /\ var_resp = Idle /\ style_resp = Idle
    /\ dbg_style_vgg_features = Idle /\ dbg_style_gram_matrices = Idle
    /\ classic_loss = NotCalled /\ given_loss = NotCalled
    /\ CallIdle /\ HistIdle

\* lines 49-51
load_external_weights ==
    /\ vgg_weights' = FileWeights
    /\ last_op' = <<"load_external_weights">>
    /\ raw_image' = var_image
    /\ UNCHANGED <<variant, layers, weights, var_image, input_content,
                   input_style, style_gram_matrices, adam_t, adam_m, adam_v,
                   steps, style_vars, call_vars, hist_vars>>

\* lines 53-55
load_content_image ==
    /\ \E img \in Images :
          /\ input_content' = img
          /\ last_op' = <<"load_content_image">>
    /\ raw_image' = var_image
    /\ UNCHANGED <<variant, layers, weights, var_image, input_style,
                   style_gram_matrices, vgg_weights, adam_t, adam_m, adam_v,
                   steps, style_vars, call_vars, hist_vars>>

\* lines 158-160, Classic only
load_style_image ==
    /\ variant = "Classic"
    /\ \E img \in Images :
          /\ input_style' = img
          /\ last_op' = <<"load_style_image">>
    /\ raw_image' = var_image
    /\ UNCHANGED <<variant, layers, weights, var_image, input_content,
                   style_gram_matrices, vgg_weights, adam_t, adam_m, adam_v,
                   steps, style_vars, call_vars, hist_vars>>

\* lines 217-220, GivenGram only: the Gram matrices of a style image
load_style_gram_matrices ==
    /\ variant = "GivenGram"
    /\ \E r \in FlatResponses :
          LET gram_matrices ==
                  ClassicCalculate(r, r, layers, weights).dbg_grams
              loaded == LoadGrams(style_gram_matrices.val, gram_matrices)
          IN  /\ loaded.ok
              /\ style_gram_matrices' = loaded
              /\ last_op' = <<"load_style_gram_matrices">>
    /\ raw_image' = var_image
    /\ UNCHANGED <<variant, layers, weights, var_image, input_content,
                   input_style, vgg_weights, adam_t, adam_m, adam_v,
                   steps, style_vars, call_vars, hist_vars>>

\* lines 58-60
initialize_var_image ==
    /\ \E noise_ratio \in NoiseRatios, noise \in Noises :
          /\ var_image' = generate_noisy_image(input_content, noise_ratio, noise)
          /\ last_op' = <<"initialize_var_image", noise_ratio, noise>>
    /\ raw_image' = var_image'
    /\ UNCHANGED <<variant, layers, weights, input_content, input_style,
                   style_gram_matrices, vgg_weights, adam_t, adam_m, adam_v,
                   steps, style_vars, call_vars, hist_vars>>

\* One run of the grouped train_op of build_model, lines 83-91: Adam's
\* update of every variable of vars_to_train, then, under the control
\* dependency on it, the assignment of the clipped var_image.  grad is the
\* sign of the loss gradient at every trained element.
step ==
    /\ steps < MaxSteps
    /\ \E grad \in [DOMAIN adam_m -> Grads] : \E tie \in Ties(grad) :
          LET m == [te \in DOMAIN adam_m |->
                       NewMoment(adam_m[te], grad[te], tie)]
          IN  /\ adam_m' = m
              /\ adam_v' = [te \in DOMAIN adam_m |-> adam_v[te] \/ grad[te] # 0]
              /\ raw_image' = Trained(<<"var_image">>, m)
              /\ var_image' = clip_var_image_op(raw_image')
              /\ input_content' = Trained(<<"input_content">>, m)
              /\ input_style' =
                    IF variant = "Classic" THEN Trained(<<"input_style">>, m)
                    ELSE input_style
              /\ vgg_weights' = Trained(<<"vgg_weights">>, m)
              /\ style_gram_matrices' =
                    IF variant = "GivenGram"
                    THEN Ok([i \in 1..Len(GramVars) |->
                                Tensor(GramVars[i].shape,
                                       Trained(<<"style_gram_matrices", i>>, m))])
                    ELSE style_gram_matrices
    /\ adam_t' = adam_t + 1
    /\ steps' = steps + 1
    /\ last_op' = <<"step">>
    /\ UNCHANGED <<variant, layers, weights, style_vars, call_vars, hist_vars>>

Next ==
    \/ load_external_weights
    \/ load_content_image
    \/ load_style_image
    \/ load_style_gram_matrices
    \/ initialize_var_image
    \/ step

Spec == Init /\ [][Next]_vars

(***************************************************************************)
(* Claims about the driver (Spec).                                         *)
(***************************************************************************)
InRange(x) == \A e \in 1..Len(x) : CLIP_MIN <= x[e] /\ x[e] <= CLIP_MAX

\* C1: in every state load_content_image, initialize_var_image and step()
\* reach, every element of var_image lies in [0, 255], and what a step
\* leaves in var_image is the clipped value of the optimizer's update.
C1_ClippingInvariant ==
    /\ InRange(var_image)
    /\ last_op[1] = "step" =>
          var_image = [e \in 1..Len(raw_image) |->
                          IF raw_image[e] < CLIP_MIN THEN CLIP_MIN
                          ELSE IF raw_image[e] > CLIP_MAX THEN CLIP_MAX
                          ELSE raw_image[e]]

\* C1 witness: a step whose optimizer update left the range
C1_Witness ==
    /\ last_op[1] = "step"
    /\ ~InRange(raw_image)
    /\ steps = MaxSteps

\* C2: for both variants the optimizer is handed exactly var_image, and a
\* step changes none of the content image, the style image, the loaded
\* Gram matrices and the extractor's weights.
C2_StepMutatesOnlyVarImage ==
    [][steps' = steps + 1 =>
          /\ TrainKeys(variant, GramVars) = {<<"var_image">>}
          /\ UNCHANGED <<input_content, input_style, style_gram_matrices,
                         vgg_weights>>]_vars

\* the optimizer's state as build() leaves it
AdamFresh ==
    /\ adam_t = 0
    /\ \A te \in DOMAIN adam_m : adam_m[te] = 0 /\ ~adam_v[te]

\* the blend initialize_var_image is to assign, from the content image, the
\* ratio and the noise drawn
ClippedBlend(content, noise_ratio, noise) ==
    [e \in 1..Len(content) |->
        LET x == ((VGG_MEAN_PIXELS[Channel(e)] + noise[e]) * noise_ratio
                  + content[e] * (NOISE_RATIO_ONE - noise_ratio)) \div NOISE_RATIO_ONE
        IN  IF x < CLIP_MIN THEN CLIP_MIN ELSE IF x > CLIP_MAX THEN CLIP_MAX ELSE x]

\* C10 as claimed: after initialize_var_image, whenever it is called,
\* var_image is the clipped blend of the content image and the noise, and
\* the rest of the driver's mutable state, the optimizer's included, is as
\* after a first initialization.
C10_RestartIsFresh ==
    last_op[1] = "initialize_var_image" =>
        /\ var_image = ClippedBlend(input_content, last_op[2], last_op[3])
        /\ AdamFresh

\* C10 amended: initialize_var_image, whenever it is called, sets var_image
\* to the clipped blend of the content image and the noise drawn, whatever
\* var_image held before, and changes nothing else: Adam's moments and
\* update count stay as the preceding steps left them, so the steps that
\* follow continue the optimizer's run and do not start a fresh one.
C10_RestartKeepsOptimizerState ==
    [][last_op'[1] = "initialize_var_image" =>
          /\ var_image' = ClippedBlend(input_content, last_op'[2], last_op'[3])
          /\ UNCHANGED <<adam_t, adam_m, adam_v, steps, input_content,
                         input_style, style_gram_matrices, vgg_weights>>]_vars

\* C10 witness: an initialization after steps, over a var_image the steps
\* had moved elsewhere, with the optimizer's moments still set
C10_Witness ==
    /\ last_op[1] = "initialize_var_image"
    /\ steps > 0 /\ adam_t = steps
    /\ \E te \in DOMAIN adam_m : adam_m[te] # 0 /\ adam_v[te]
    /\ last_op[2] # 0

====
